---- MODULE Spec2Model ----
(***************************************************************************)
(* CholLinearOperator (linear_operator/operators/chol_linear_operator.py): *)
(* a symmetric operator A = R R^T (upper = False) or A = R^T R             *)
(* (upper = True) kept through its triangular factor R.                    *)
(*                                                                         *)
(* Numbers are exact rationals <<num, den>> (den > 0, lowest terms), so    *)
(* the floating-point "within tolerance" of the tests becomes equality.    *)
(* A matrix is a sequence of rows, a vector a sequence of rationals.        *)
(***************************************************************************)
EXTENDS Integers, Sequences, FiniteSets, TLC

VARIABLES
    self,      \* the operator: [root |-> [mat, upper], upper |-> BOOLEAN], or None
    op,        \* the last call made on it ("init" before any call)
    arg,       \* that call's arguments
    res,       \* what the call returned
    err,       \* the exception the call raised ("none" when it returned)
    warned,    \* whether the constructor emitted the DeprecationWarning
    ran,       \* the term computations the call started: "inv_quad", "logdet"
    cache,     \* the memoize cache of the instance: key -> [full, val]
    ncalls,    \* per cache key, how often the decorated method body has run
    first      \* per cache key, what the first call with it returned (history)

vars == <<self, op, arg, res, err, warned, ran, cache, ncalls, first>>

\* A tensor is [ndim |-> its rank, val |-> its entries as a matrix]: a 2-D
\* tensor's rows, a 1-D tensor's entries as one row, a 0-D tensor's number as
\* one row of one entry.  Python's None is NoneT.
NoneT == [ndim |-> 0 - 1, val |-> <<>>]
T0(q) == [ndim |-> 0, val |-> <<<<q>>>>]
T1(v) == [ndim |-> 1, val |-> <<v>>]
T2(M) == [ndim |-> 2, val |-> M]
Vec(t) == t.val[1]
Scalar(t) == t.val[1][1]

\* ------------------------------------------------------------------ bounds
MaxVal == 1     \* the factor's entries are in -MaxVal..MaxVal
MaxCols == 1    \* a 2-D right-hand side has 0..MaxCols columns (or is the identity)
MaxSide == 2    \* a dimension of an abstract shape is in 1..MaxSide

Dims == {1, 2}  \* the factors are 1 x 1 and 2 x 2 (the size of the spec's scenarios)
Vals == (0 - MaxVal)..MaxVal
RhsVals == 0..1  \* the entries of the right-hand sides (besides the scenario's)

\* ------------------------------------------------------------ exact numbers
Abs(x) == IF x < 0 THEN 0 - x ELSE x

RECURSIVE GCD(_, _)
GCD(a, b) == IF b = 0 THEN a ELSE GCD(b, a % b)

\* n / d in lowest terms, d > 0
QNorm(n, d) ==
    IF d = 1 THEN <<n, 1>>
    ELSE LET g == GCD(Abs(n), Abs(d))
             s == IF d < 0 THEN 0 - 1 ELSE 1
         IN  <<(s * n) \div g, (s * d) \div g>>

Q(n) == <<n, 1>>
QZero == Q(0)
QOne == Q(1)
QAdd(x, y) == QNorm(x[1] * y[2] + y[1] * x[2], x[2] * y[2])
QSub(x, y) == QNorm(x[1] * y[2] - y[1] * x[2], x[2] * y[2])
QMul(x, y) == QNorm(x[1] * y[1], x[2] * y[2])
QDiv(x, y) == QNorm(x[1] * y[2], x[2] * y[1])
QNeg(x) == <<0 - x[1], x[2]>>

RECURSIVE QSum(_)
QSum(s) == IF s = <<>> THEN QZero ELSE QAdd(Head(s), QSum(Tail(s)))

RECURSIVE QProd(_)
QProd(s) == IF s = <<>> THEN QOne ELSE QMul(Head(s), QProd(Tail(s)))

\* ------------------------------------------------------------------ tensors
\* the sequence s as an explicit tuple (its entries evaluated once)
Tup(s) == SubSeq(s, 1, Len(s))

NRows(M) == Len(M)
NCols(M) == IF Len(M) = 0 THEN 0 ELSE Len(M[1])

Transpose(M) == Tup([j \in 1..NCols(M) |-> Tup([i \in 1..NRows(M) |-> M[i][j]])])

\* M @ N for 2-D tensors
MatMul(M, N) ==
    Tup([i \in 1..NRows(M) |->
        Tup([j \in 1..NCols(N) |->
            QSum([k \in 1..NCols(M) |-> QMul(M[i][k], N[k][j])])])])

\* M @ v for a 2-D M and a 1-D v
MatVec(M, v) ==
    Tup([i \in 1..NRows(M) |-> QSum([k \in 1..Len(v) |-> QMul(M[i][k], v[k])])])

Identity(n) == Tup([i \in 1..n |-> Tup([j \in 1..n |-> IF i = j THEN QOne ELSE QZero])])

\* tensor.unsqueeze(-1) of a 1-D tensor: its entries as one column
unsqueeze(t) == T2(Tup([i \in 1..Len(Vec(t)) |-> <<Vec(t)[i]>>]))

\* tensor.squeeze(-1) of a 2-D tensor: drops a last dimension of size 1
squeeze(t) ==
    IF NCols(t.val) = 1 THEN T1(Tup([i \in 1..NRows(t.val) |-> t.val[i][1]])) ELSE t

\* left @ right for a 2-D left and a 1-D or 2-D right
matmul(left, right) ==
    IF right.ndim = 1 THEN T1(MatVec(left.val, Vec(right)))
    ELSE T2(MatMul(left.val, right.val))

\* (tensor ** 2).sum(-1): per row, the sum of the squares
SumSqLast(M) ==
    Tup([i \in 1..NRows(M) |-> QSum([j \in 1..NCols(M) |-> QMul(M[i][j], M[i][j])])])

\* (tensor ** 2).sum(dim=-2): per column, the sum of the squares
SumSqRows(M) ==
    Tup([j \in 1..NCols(M) |-> QSum([i \in 1..NRows(M) |-> QMul(M[i][j], M[i][j])])])

IsLower(M) == \A i \in 1..NRows(M) : \A j \in 1..NCols(M) : j > i => M[i][j] = QZero
IsUpper(M) == \A i \in 1..NRows(M) : \A j \in 1..NCols(M) : j < i => M[i][j] = QZero

\* ------------------------------------------------ the triangular factor
\* TriangularLinearOperator: [mat |-> the dense triangular matrix,
\* upper |-> its orientation tag].  Its kernels are exact.
Tri(mat, upper) == [mat |-> mat, upper |-> upper]

\* the factor has a zero on its diagonal: its solves are not finite
Singular(t) == \E i \in 1..NRows(t.mat) : t.mat[i][i] = QZero

\* root._transpose_nonbatch(): the transposed matrix, the tag flipped
TriTranspose(t) == Tri(Transpose(t.mat), ~t.upper)

\* root._diagonal(): the factor's own diagonal
TriDiagonal(t) == Tup([i \in 1..NRows(t.mat) |-> t.mat[i][i]])

\* forward substitution, the first i entries of the solution of L y = b
RECURSIVE FwdVec(_, _, _)
FwdVec(L, b, i) ==
    IF i = 0 THEN <<>>
    ELSE LET y == FwdVec(L, b, i - 1)
             s == QSum([j \in 1..(i - 1) |-> QMul(L[i][j], y[j])])
         IN  Append(y, QDiv(QSub(b[i], s), L[i][i]))

Reverse(s) == Tup([i \in 1..Len(s) |-> s[Len(s) + 1 - i]])
Flip(M) == Reverse([i \in 1..NRows(M) |-> Reverse(M[i])])

\* the solution y of M y = b for a triangular M with non-zero diagonal
TriSolveVec(M, b) ==
    IF IsLower(M) THEN FwdVec(M, b, Len(b))
    ELSE Reverse(FwdVec(Flip(M), Reverse(b), Len(b)))

\* root.solve(rhs) for a 2-D rhs: column by column
TriSolve(t, rhs) ==
    Transpose([c \in 1..NCols(rhs) |->
                 TriSolveVec(t.mat, Tup([i \in 1..NRows(rhs) |-> rhs[i][c]]))])

\* root.inverse(): the inverse factor, same tag
TriInverse(t) == Tri(TriSolve(t, Identity(NRows(t.mat))), t.upper)

\* root._cholesky_solve(rhs, upper): solves R R^T X = rhs when upper is
\* False and R^T R X = rhs when upper is True
_cholesky_solve(t, rhs, upper) ==
    IF upper THEN TriSolve(t, TriSolve(TriTranspose(t), rhs))
    ELSE TriSolve(TriTranspose(t), TriSolve(t, rhs))

\* RootLinearOperator(root): the operator root root^T
RootLinearOperator(root) == [root |-> root]
RootToDense(r) == MatMul(r.root.mat, Transpose(r.root.mat))

\* ------------------------------------------------- CholLinearOperator
CholLinearOperator(root, upper) == [root |-> root, upper |-> upper]

\* self.shape: the root is n x n, and so is the operator
size(o) == <<NRows(o.root.mat), NRows(o.root.mat)>>

\* @property _chol_diag
_chol_diag(o) == TriDiagonal(o.root)

\* (mutant) the requested orientation is taken for the answer, self.upper unread
_cholesky_ignores_flag(o, upper) ==
    IF upper THEN TriTranspose(o.root) ELSE o.root

\* _cholesky(upper): the body under @cached(name="cholesky")
_cholesky(o, upper) ==
    IF upper = o.upper THEN o.root ELSE TriTranspose(o.root)

\* _diagonal(): the body under @cached
_diagonal(o) == SumSqLast(o.root.mat)

\* (mutant) the product is chosen by the factor's tag, not by self.upper
to_dense_by_tag(o) ==
    LET root == o.root
    IN  IF root.upper THEN MatMul(TriTranspose(root).mat, root.mat)
        ELSE MatMul(root.mat, TriTranspose(root).mat)

\* to_dense(): the body under @cached
to_dense(o) ==
    LET root == o.root
    IN  IF o.upper THEN MatMul(TriTranspose(root).mat, root.mat)
        ELSE MatMul(root.mat, TriTranspose(root).mat)

\* (mutant) the orientation is not flipped
inverse_keeps_upper(o) ==
    LET Linv == TriInverse(o.root)
    IN  CholLinearOperator(Tri(Linv.mat, o.upper), o.upper)

\* inverse(): the body under @cached
inverse(o) ==
    LET Linv == TriInverse(o.root)
    IN  CholLinearOperator(Tri(Linv.mat, ~o.upper), ~o.upper)

\* (mutant) the two branches on self.upper are swapped
inv_quad_swapped(o, tensor, reduce_inv_quad) ==
    LET R == IF o.upper THEN TriSolve(o.root, tensor.val)
             ELSE TriSolve(TriTranspose(o.root), tensor.val)
        inv_quad_term == SumSqRows(R)
    IN  IF Len(inv_quad_term) # 0 /\ reduce_inv_quad
        THEN T0(QSum(inv_quad_term))
        ELSE T1(inv_quad_term)

\* inv_quad(tensor, reduce_inv_quad) for a 2-D tensor
inv_quad(o, tensor, reduce_inv_quad) ==
    LET R == IF o.upper THEN TriSolve(TriTranspose(o.root), tensor.val)
             ELSE TriSolve(o.root, tensor.val)
        inv_quad_term == SumSqRows(R)
    IN  IF Len(inv_quad_term) # 0 /\ reduce_inv_quad
        THEN T0(QSum(inv_quad_term))
        ELSE T1(inv_quad_term)

\* root_inv_decomposition(method, initial_vectors, test_vectors)
root_inv_decomposition(o, method, initial_vectors, test_vectors) ==
    LET inv_root == TriInverse(o.root)
    IN  RootLinearOperator(TriTranspose(inv_root))

\* (mutant) the factor's tag is passed for the orientation, not self.upper
solve_by_tag(o, right_tensor, left_tensor) ==
    LET is_vector == right_tensor.ndim = 1
        rt == IF is_vector THEN unsqueeze(right_tensor) ELSE right_tensor
        r1 == T2(_cholesky_solve(o.root, rt.val, o.root.upper))
        r2 == IF is_vector THEN squeeze(r1) ELSE r1
    IN  IF left_tensor.ndim = 0 - 1 THEN r2 ELSE matmul(left_tensor, r2)

\* solve(right_tensor, left_tensor)
solve(o, right_tensor, left_tensor) ==
    LET is_vector == right_tensor.ndim = 1
        rt == IF is_vector THEN unsqueeze(right_tensor) ELSE right_tensor
        r1 == T2(_cholesky_solve(o.root, rt.val, o.upper))
        r2 == IF is_vector THEN squeeze(r1) ELSE r1
    IN  IF left_tensor.ndim = 0 - 1 THEN r2 ELSE matmul(left_tensor, r2)

\* the log-determinant term self._chol_diag.pow(2).log().sum(-1).  A logarithm
\* is kept as [log |-> x], the number whose logarithm it is, so that a sum of
\* logarithms is the logarithm of the product (log 0 = -inf is [log |-> 0]).
Log(x) == [log |-> x]
LogSum(ls) == [log |-> QProd([i \in 1..Len(ls) |-> ls[i].log])]
\* (mutant) .pow(2) is missing
logdet_term_unsquared(o) ==
    LET d == _chol_diag(o)
    IN  LogSum(Tup([i \in 1..Len(d) |-> Log(d[i])]))

logdet_term(o) ==
    LET d == _chol_diag(o)
    IN  LogSum(Tup([i \in 1..Len(d) |-> Log(QMul(d[i], d[i]))]))

\* ------------------------------------------------------ inv_quad_logdet
Last(s) == s[Len(s)]
Last2(s) == s[Len(s) - 1]

\* (mutant) no exception for a 1-D right-hand side of an unbatched operator
InvQuadLogdetError_no_vector_case(shape, hasRhs, rhsShape) ==
    IF Last(shape) # Last2(shape) THEN "RuntimeError: square"
    ELSE IF ~hasRhs THEN "none"
    ELSE IF Len(shape) # Len(rhsShape) THEN "RuntimeError: number of dimensions"
    ELSE IF Last(shape) # Last2(rhsShape) THEN "RuntimeError: cannot be multiplied"
    ELSE "none"

\* the precondition checks of inv_quad_logdet on the operator's shape and the
\* right-hand side's: the exception raised, "none" when they pass
InvQuadLogdetError(shape, hasRhs, rhsShape) ==
    IF Last(shape) # Last2(shape) THEN "RuntimeError: square"
    ELSE IF ~hasRhs THEN "none"
    ELSE IF Len(shape) = 2 /\ Len(rhsShape) = 1
         THEN IF Last(shape) # rhsShape[1]
              THEN "RuntimeError: cannot be multiplied" ELSE "none"
    ELSE IF Len(shape) # Len(rhsShape) THEN "RuntimeError: number of dimensions"
    ELSE IF Last(shape) # Last2(rhsShape) THEN "RuntimeError: cannot be multiplied"
    ELSE "none"

\* what inv_quad_logdet does after its checks (e the checks' outcome), given
\* the outcome iq of self.inv_quad(inv_quad_rhs, ...) and the logdet term ld
InvQuadLogdetBody(e, hasRhs, logdet, iq, ld) ==
    IF e # "none" THEN [err |-> e, ran |-> {}, val |-> <<NoneT, NoneT>>]
    ELSE IF hasRhs /\ iq.err # "none"
         THEN [err |-> iq.err, ran |-> {"inv_quad"}, val |-> <<NoneT, NoneT>>]
    ELSE [err |-> "none",
          ran |-> (IF hasRhs THEN {"inv_quad"} ELSE {})
                  \cup (IF logdet THEN {"logdet"} ELSE {}),
          val |-> <<IF hasRhs THEN iq.val ELSE NoneT,
                    IF logdet THEN ld ELSE NoneT>>]

\* self.inv_quad on the right-hand side inv_quad_logdet hands it.  For a 1-D
\* tensor the factor's solve either keeps the rank (rank1), and sum(dim=-2)
\* of the 1-D result raises, or returns the column.
InvQuadCall(o, tensor, reduce_inv_quad, rank1) ==
    IF tensor.ndim = 1
    THEN IF rank1 THEN [err |-> "IndexError", val |-> NoneT]
         ELSE [err |-> "none",
               val |-> inv_quad(o, unsqueeze(tensor), reduce_inv_quad)]
    ELSE [err |-> "none", val |-> inv_quad(o, tensor, reduce_inv_quad)]

TensorShape(t) ==
    IF t.ndim = 1 THEN <<Len(Vec(t))>>
    ELSE IF t.ndim = 2 THEN <<NRows(t.val), NCols(t.val)>>
    ELSE <<>>

\* inv_quad_logdet(inv_quad_rhs, logdet, reduce_inv_quad) on a concrete operator
inv_quad_logdet(o, inv_quad_rhs, logdet, reduce_inv_quad, rank1) ==
    LET hasRhs == inv_quad_rhs.ndim # 0 - 1
        e == InvQuadLogdetError(size(o), hasRhs, TensorShape(inv_quad_rhs))
    IN  InvQuadLogdetBody(e, hasRhs, logdet,
            IF e = "none" /\ hasRhs
            THEN InvQuadCall(o, inv_quad_rhs, reduce_inv_quad, rank1)
            ELSE [err |-> "none", val |-> NoneT],
            IF e = "none" /\ logdet THEN logdet_term(o) ELSE NoneT)

\* ------------------------------------------------------------- the inputs
\* the operator's factor matrix and its size
R == self.root.mat
N == NRows(R)

LowIdx(n) == {p \in (1..n) \X (1..n) : p[2] <= p[1]}

\* the lower-triangular n x n matrices with entries in V
LowerMats(n, V) ==
    {Tup([i \in 1..n |-> Tup([j \in 1..n |-> IF j <= i THEN Q(f[<<i, j>>]) ELSE QZero])]) :
        f \in [LowIdx(n) -> V]}

\* the spec's scenario factor R = [[2,0],[1,3]]
ScenarioRoot == <<<<Q(2), Q(0)>>, <<Q(1), Q(3)>>>>

\* typed factors: a triangular matrix with the tag of its orientation
Factors ==
    LET L == UNION {LowerMats(n, Vals) : n \in Dims} \cup {ScenarioRoot}
    IN  {Tri(M, FALSE) : M \in L} \cup {Tri(Transpose(M), TRUE) : M \in L}

Operators == {CholLinearOperator(t, u) : t \in Factors, u \in BOOLEAN}

Vectors(n) == {Tup([i \in 1..n |-> Q(f[i])]) : f \in [1..n -> RhsVals]} \cup
              (IF n = 2 THEN {<<Q(4), Q(2)>>} ELSE {})
Matrices(n, k) ==
    {Tup([i \in 1..n |-> Tup([j \in 1..k |-> Q(f[<<i, j>>])])]) :
        f \in [(1..n) \X (1..k) -> RhsVals]}

\* the 2-D tensors of n rows: 0..MaxCols columns, and the n x n identity
Tensors2(n) ==
    {T2(M) : M \in UNION {Matrices(n, k) : k \in 0..MaxCols}} \cup {T2(Identity(n))}

\* right-hand sides: 1-D and 2-D
RightTensors(n) == {T1(v) : v \in Vectors(n)} \cup Tensors2(n)

\* left_tensor: absent, or a row of ones
Lefts(n) == {NoneT, T2(<<Tup([j \in 1..n |-> QOne])>>)}

Invoke(name, a, r) ==
    /\ op' = name
    /\ arg' = a
    /\ res' = r
    /\ UNCHANGED <<self, warned, cache, ncalls, first>>

NonFiniteRes == [kind |-> "nonfinite", val |-> <<>>]
Raised == [kind |-> "raised", val |-> <<>>]
Ret(kind, v) == [kind |-> kind, val |-> v]

\* ------------------------------------- calls on one constructed operator
CallToDense ==
    /\ op = "init"
    /\ Invoke("to_dense", <<>>, Ret("tensor", T2(to_dense(self))))
    /\ UNCHANGED <<err, ran>>

CallDiagonal ==
    /\ op = "init"
    /\ Invoke("diagonal", <<>>, Ret("tensor", T1(_diagonal(self))))
    /\ UNCHANGED <<err, ran>>

CallInverse ==
    /\ op = "init"
    /\ Invoke("inverse", <<>>,
              IF Singular(self.root) THEN NonFiniteRes
              ELSE Ret("operator", inverse(self)))
    /\ UNCHANGED <<err, ran>>

CallSolve ==
    /\ op = "init"
    /\ \E left \in Lefts(N) : \E b \in RightTensors(N) :
          /\ Invoke("solve", [right_tensor |-> b, left_tensor |-> left],
                    IF Singular(self.root) THEN NonFiniteRes
                    ELSE Ret("tensor", solve(self, b, left)))
          /\ UNCHANGED <<err, ran>>

CallInvQuad ==
    /\ op = "init"
    /\ \E T \in Tensors2(N) : \E reduce \in BOOLEAN :
          /\ Invoke("inv_quad", [tensor |-> T, reduce_inv_quad |-> reduce],
                    IF Singular(self.root) THEN NonFiniteRes
                    ELSE Ret("tensor", inv_quad(self, T, reduce)))
          /\ UNCHANGED <<err, ran>>

CallRootInvDecomposition ==
    /\ op = "init"
    /\ \E method \in {"None", "lanczos"} :
       \E iv \in {NoneT, T1(<<QOne>>)} : \E tv \in {NoneT, T1(<<QOne>>)} :
          /\ Invoke("root_inv_decomposition",
                    [method |-> method, initial_vectors |-> iv, test_vectors |-> tv],
                    IF Singular(self.root) THEN NonFiniteRes
                    ELSE Ret("root", root_inv_decomposition(self, method, iv, tv)))
          /\ UNCHANGED <<err, ran>>

CallInvQuadLogdet ==
    /\ op = "init"
    /\ \E rhs \in {NoneT} \cup RightTensors(N) :
       \E logdet \in BOOLEAN : \E reduce \in BOOLEAN : \E rank1 \in BOOLEAN :
          LET out == inv_quad_logdet(self, rhs, logdet, reduce, rank1)
              sing == /\ Singular(self.root)
                      /\ rhs.ndim # 0 - 1
                      /\ InvQuadLogdetError(size(self), TRUE, TensorShape(rhs)) = "none"
          IN  /\ Invoke("inv_quad_logdet",
                        [inv_quad_rhs |-> rhs, logdet |-> logdet,
                         reduce_inv_quad |-> reduce],
                        IF sing THEN NonFiniteRes
                        ELSE IF out.err # "none" THEN Raised
                        ELSE Ret("pair", out.val))
              /\ err' = IF sing THEN "none" ELSE out.err
              /\ ran' = IF sing
                        THEN {"inv_quad"} \cup (IF logdet THEN {"logdet"} ELSE {})
                        ELSE out.ran

InitAlg ==
    /\ self \in Operators
    /\ op = "init"
    /\ arg = <<>>
    /\ res = Ret("none", <<>>)
    /\ err = "none"
    /\ warned = FALSE
    /\ ran = {}
    /\ cache = <<>>
    /\ ncalls = <<>>
    /\ first = <<>>

NextAlg ==
    \/ CallToDense
    \/ CallDiagonal
    \/ CallInverse
    \/ CallSolve
    \/ CallInvQuad
    \/ CallRootInvDecomposition
    \/ CallInvQuadLogdet

SpecAlg == InitAlg /\ [][NextAlg]_vars

\* ------------------------------------------------------ the constructor
\* torch.tril(chol) and torch.triu(chol)
tril(M) ==
    Tup([i \in 1..NRows(M) |-> Tup([j \in 1..NCols(M) |-> IF j <= i THEN M[i][j] ELSE QZero])])
triu(M) ==
    Tup([i \in 1..NRows(M) |-> Tup([j \in 1..NCols(M) |-> IF j >= i THEN M[i][j] ELSE QZero])])

\* torch.all(A == B) for two tensors of one shape
AllEqual(A, B) == \A i \in 1..NRows(A) : \A j \in 1..NCols(A) : A[i][j] = B[i][j]

\* (mutant) the upper-triangular test comes first
__init__triu_first(chol, upper) ==
    IF chol.typed
    THEN [warned |-> FALSE, err |-> "none",
          obj |-> CholLinearOperator(Tri(chol.mat, chol.upper), upper)]
    ELSE IF AllEqual(triu(chol.mat), chol.mat)
         THEN [warned |-> TRUE, err |-> "none",
               obj |-> CholLinearOperator(Tri(chol.mat, TRUE), upper)]
    ELSE IF AllEqual(tril(chol.mat), chol.mat)
         THEN [warned |-> TRUE, err |-> "none",
               obj |-> CholLinearOperator(Tri(chol.mat, FALSE), upper)]
    ELSE [warned |-> TRUE, err |-> "ValueError",
          obj |-> CholLinearOperator(Tri(<<>>, FALSE), FALSE)]

\* __init__(chol, upper).  chol is [typed |-> whether it is a
\* _TriangularLinearOperatorBase, mat |-> its matrix, upper |-> its tag (of a
\* typed factor)].  The outcome: the warning, the exception, the object.
__init__(chol, upper) ==
    IF chol.typed
    THEN [warned |-> FALSE, err |-> "none",
          obj |-> CholLinearOperator(Tri(chol.mat, chol.upper), upper)]
    ELSE IF AllEqual(tril(chol.mat), chol.mat)
         THEN [warned |-> TRUE, err |-> "none",
               obj |-> CholLinearOperator(Tri(chol.mat, FALSE), upper)]
    ELSE IF AllEqual(triu(chol.mat), chol.mat)
         THEN [warned |-> TRUE, err |-> "none",
               obj |-> CholLinearOperator(Tri(chol.mat, TRUE), upper)]
    ELSE [warned |-> TRUE, err |-> "ValueError",
          obj |-> CholLinearOperator(Tri(<<>>, FALSE), FALSE)]

\* no object: before construction, and after a construction that raised
NoObject == CholLinearOperator(Tri(<<>>, FALSE), FALSE)

DenseArrays ==
    UNION {{Tup([i \in 1..n |-> Tup([j \in 1..n |-> Q(f[<<i, j>>])])]) :
               f \in [(1..n) \X (1..n) -> Vals]} : n \in Dims}

CholArgs ==
    {[typed |-> TRUE, mat |-> t.mat, upper |-> t.upper] : t \in Factors} \cup
    {[typed |-> FALSE, mat |-> M, upper |-> FALSE] : M \in DenseArrays}

Construct ==
    /\ op = "new"
    /\ \E chol \in CholArgs : \E upper \in BOOLEAN :
        LET out == __init__(chol, upper)
        IN  /\ op' = "__init__"
            /\ arg' = [chol |-> chol, upper |-> upper]
            /\ warned' = out.warned
            /\ err' = out.err
            /\ self' = out.obj
            /\ res' = IF out.err = "none" THEN Ret("operator", out.obj) ELSE Raised
            /\ UNCHANGED <<ran, cache, ncalls, first>>

InitNew ==
    /\ self = NoObject
    /\ op = "new"
    /\ arg = <<>>
    /\ res = Ret("none", <<>>)
    /\ err = "none"
    /\ warned = FALSE
    /\ ran = {}
    /\ cache = <<>>
    /\ ncalls = <<>>
    /\ first = <<>>

NextNew == Construct

SpecNew == InitNew /\ [][NextNew]_vars

\* ------------------------------------------------------ the memoize cache
\* @cached keeps each result on the instance under the method's name (or the
\* name given to the decorator) and the keyword arguments of the call.
CacheKey(name, kwargs) == <<name, kwargs>>

KwUpper(u) == IF u THEN "upper=True" ELSE "upper=False"

Keys == {CacheKey("cholesky", KwUpper(u)) : u \in BOOLEAN} \cup
        {CacheKey(n, "") : n \in {"_diagonal", "to_dense", "inverse"}}

Empty == [full |-> FALSE, val |-> Ret("none", <<>>)]

\* the decorated method's body for a key
Body(o, key) ==
    IF key[1] = "cholesky" THEN Ret("factor", _cholesky(o, key[2] = "upper=True"))
    ELSE IF key[1] = "_diagonal" THEN Ret("tensor", T1(_diagonal(o)))
    ELSE IF key[1] = "to_dense" THEN Ret("tensor", T2(to_dense(o)))
    ELSE IF Singular(o.root) THEN NonFiniteRes
    ELSE Ret("operator", inverse(o))

\* a call of a cached accessor: the body runs only when the key is absent
CallCached ==
    \E key \in Keys :
        /\ op' = key[1]
        /\ arg' = key[2]
        /\ IF cache[key].full
           THEN /\ res' = cache[key].val
                /\ UNCHANGED <<cache, ncalls>>
           ELSE LET v == Body(self, key)
                IN  /\ res' = v
                    /\ cache' = [cache EXCEPT ![key] = [full |-> TRUE, val |-> v]]
                    /\ ncalls' = [ncalls EXCEPT ![key] = @ + 1]
        /\ first' = IF first[key].full THEN first
                    ELSE [first EXCEPT ![key] = [full |-> TRUE, val |-> res']]
        /\ UNCHANGED <<self, err, warned, ran>>

InitCache ==
    /\ self \in Operators
    /\ op = "init"
    /\ arg = ""
    /\ res = Ret("none", <<>>)
    /\ err = "none"
    /\ warned = FALSE
    /\ ran = {}
    /\ cache = [k \in Keys |-> Empty]
    /\ ncalls = [k \in Keys |-> 0]
    /\ first = [k \in Keys |-> Empty]

NextCache == CallCached

SpecCache == InitCache /\ [][NextCache]_vars

\* ------------------------------------- inv_quad_logdet on abstract shapes
\* The checks read shapes only: here the operator is its shape (batched or
\* not, square or not) and a computed term is AbstractTerm.
AbstractTerm == [ndim |-> 0, val |-> <<>>]

Shapes(lens) == UNION {[1..l -> 1..MaxSide] : l \in lens}

\* torch broadcasting of the batch dimensions of two shapes of one rank
Broadcastable(s, t) ==
    \A i \in 1..(Len(s) - 2) : s[i] = t[i] \/ s[i] = 1 \/ t[i] = 1

\* self.inv_quad on shapes that passed the checks
InvQuadShaped(shape, rhsShape, rank1) ==
    IF Len(rhsShape) = 1
    THEN IF rank1 THEN [err |-> "IndexError", val |-> NoneT]
         ELSE [err |-> "none", val |-> AbstractTerm]
    ELSE IF ~Broadcastable(shape, rhsShape)
         THEN [err |-> "RuntimeError: broadcast", val |-> NoneT]
    ELSE [err |-> "none", val |-> AbstractTerm]

CallInvQuadLogdetShaped ==
    /\ op = "init"
    /\ \E hasRhs \in BOOLEAN : \E rhsShape \in Shapes(0..3) :
       \E logdet \in BOOLEAN : \E reduce \in BOOLEAN : \E rank1 \in BOOLEAN :
          LET e == InvQuadLogdetError(self.shape, hasRhs, rhsShape)
              out == InvQuadLogdetBody(e, hasRhs, logdet,
                         IF e = "none" /\ hasRhs
                         THEN InvQuadShaped(self.shape, rhsShape, rank1)
                         ELSE [err |-> "none", val |-> NoneT],
                         AbstractTerm)
          IN  /\ hasRhs \/ rhsShape = <<>>
              /\ op' = "inv_quad_logdet"
              /\ arg' = [hasRhs |-> hasRhs, rhsShape |-> rhsShape, logdet |-> logdet,
                         reduce_inv_quad |-> reduce]
              /\ res' = IF out.err # "none" THEN Raised ELSE Ret("pair", out.val)
              /\ err' = out.err
              /\ ran' = out.ran
              /\ UNCHANGED <<self, warned, cache, ncalls, first>>

InitShape ==
    /\ self \in {[shape |-> s] : s \in Shapes(2..3)}
    /\ op = "init"
    /\ arg = <<>>
    /\ res = Ret("none", <<>>)
    /\ err = "none"
    /\ warned = FALSE
    /\ ran = {}
    /\ cache = <<>>
    /\ ncalls = <<>>
    /\ first = <<>>

NextShape == CallInvQuadLogdetShaped

SpecShape == InitShape /\ [][NextShape]_vars

\* ------------------------------------------- reference linear algebra
\* (used by the properties only: sums over indices, cofactor expansion)
\* (R R^T)[i][j] and (R^T R)[i][j] entry by entry
RRt(i, j) == QSum([k \in 1..N |-> QMul(R[i][k], R[j][k])])
RtR(i, j) == QSum([k \in 1..N |-> QMul(R[k][i], R[k][j])])

\* the matrix the operator stands for
DenseRef ==
    Tup([i \in 1..N |-> Tup([j \in 1..N |-> IF self.upper THEN RtR(i, j) ELSE RRt(i, j)])])

Without(s, i) == Tup([k \in 1..(Len(s) - 1) |-> IF k < i THEN s[k] ELSE s[k + 1]])
Minor(M, i, j) == Tup([r \in 1..(NRows(M) - 1) |-> Without(Without(M, i)[r], j)])

RECURSIVE Det(_)
Det(M) ==
    IF NRows(M) = 0 THEN QOne
    ELSE QSum([j \in 1..NRows(M) |->
                 QMul(IF j % 2 = 1 THEN M[1][j] ELSE QNeg(M[1][j]),
                      Det(Minor(M, 1, j)))])

\* the inverse of a dense matrix by cofactors
DenseInverse(M) ==
    Tup([i \in 1..NRows(M) |-> Tup([j \in 1..NRows(M) |->
        QDiv(QMul(IF (i + j) % 2 = 0 THEN QOne ELSE QNeg(QOne), Det(Minor(M, j, i))),
             Det(M))])])

\* ------------------------------------------------------------ properties

\* C1: diagonal() equals the main diagonal of to_dense(), for both values of
\* the operator's upper flag.
C1_DiagonalIsDiagOfDense ==
    op = "diagonal" =>
        /\ res.val.ndim = 1
        /\ \A i \in 1..N : Vec(res.val)[i] = to_dense(self)[i][i]

\* C2: to_dense() is R R^T when the operator's upper flag is False and
\* R^T R when it is True, whatever the factor's own orientation tag.
C2_ToDense ==
    op = "to_dense" =>
        /\ res.val.ndim = 2
        /\ res.val.val = DenseRef

C2_Witness ==
    /\ op = "to_dense"
    /\ self.root.upper /\ ~self.upper
    /\ \E i \in 1..N : \E j \in 1..N : RRt(i, j) # RtR(i, j)
    /\ \A i \in 1..N : \A j \in 1..N : res.val.val[i][j] = RRt(i, j)

\* C3: solve(b) without left_tensor returns X with to_dense() @ X = b, of the
\* rank of b; R = [[2,0],[1,3]], upper=False, b = [4,2] gives [1,0].
C3_Solve ==
    (op = "solve" /\ res.kind = "tensor" /\ arg.left_tensor.ndim = 0 - 1) =>
        /\ res.val.ndim = arg.right_tensor.ndim
        /\ IF arg.right_tensor.ndim = 1
           THEN MatVec(to_dense(self), Vec(res.val)) = Vec(arg.right_tensor)
           ELSE MatMul(to_dense(self), res.val.val) = arg.right_tensor.val
        /\ (R = ScenarioRoot /\ ~self.upper /\ arg.right_tensor = T1(<<Q(4), Q(2)>>))
              => Vec(res.val) = <<Q(1), Q(0)>>

C3_Witness ==
    /\ op = "solve"
    /\ R = ScenarioRoot /\ ~self.upper
    /\ arg.left_tensor.ndim = 0 - 1
    /\ arg.right_tensor = T1(<<Q(4), Q(2)>>)
    /\ res.kind = "tensor"
    /\ res.val = T1(<<Q(1), Q(0)>>)

C5_RootInvDecomposition ==
    (op = "root_inv_decomposition" /\ res.kind = "root") =>
        /\ MatMul(Transpose(res.val.root.mat), R) = Identity(N)
        /\ MatMul(RootToDense(res.val), to_dense(self)) = Identity(N)

\* (T^T M T)[j][j]
QuadCol(M, T, j) ==
    QSum([i \in 1..NRows(T) |->
        QMul(T[i][j], QSum([l \in 1..NRows(T) |-> QMul(M[i][l], T[l][j])]))])

\* C6: inv_quad(T) for T of shape (n, k), k >= 1, is trace(T^T A^-1 T) with
\* reduction on, and the k per-column sums (its diagonal) with reduction off.
C6_InvQuad ==
    (op = "inv_quad" /\ res.kind = "tensor" /\ NCols(arg.tensor.val) >= 1) =>
        LET T == arg.tensor.val
            Ainv == DenseInverse(to_dense(self))
            cols == Tup([j \in 1..NCols(T) |-> QuadCol(Ainv, T, j)])
        IN  IF arg.reduce_inv_quad
            THEN res.val.ndim = 0 /\ Scalar(res.val) = QSum(cols)
            ELSE res.val.ndim = 1 /\ Vec(res.val) = cols

C6_Witness ==
    /\ op = "inv_quad" /\ res.kind = "tensor"
    /\ self.upper /\ N = 2 /\ R # Transpose(R)
    /\ NCols(arg.tensor.val) = 2
    /\ arg.reduce_inv_quad
    /\ res.val.ndim = 0
    /\ Scalar(res.val) # QZero

\* C7: each cached accessor's body runs at most once per key, every call
\* with a key returns what the first call with it returned, and
\* _cholesky(u) is the stored factor when u is the operator's upper flag and
\* its transpose otherwise, whatever was requested before.
C7_Cache ==
    /\ \A k \in Keys : ncalls[k] <= 1
    /\ \A k \in Keys : cache[k].full => (first[k].full /\ cache[k].val = first[k].val)
    /\ \A k \in Keys : (op = k[1] /\ arg = k[2]) => (first[k].full /\ res = first[k].val)
    /\ op = "cholesky" =>
          LET u == arg = "upper=True"
          IN  /\ res.kind = "factor"
              /\ IF u = self.upper
                 THEN res.val = self.root
                 ELSE /\ res.val.upper = ~self.root.upper
                      /\ \A i \in 1..N : \A j \in 1..N : res.val.mat[i][j] = R[j][i]

C7_Witness ==
    /\ \A k \in Keys : ncalls[k] = 1 /\ cache[k].full
    /\ op = "cholesky" /\ arg = "upper=False"
    /\ self.upper
    /\ R # Transpose(R)
    /\ cache[CacheKey("cholesky", "upper=True")].val.val = self.root
    /\ res.val.mat = Transpose(R)

\* C8: construction from a bare array always warns; it raises ValueError
\* and makes no operator when the array is neither lower- nor
\* upper-triangular, wraps it as a lower factor when it is lower-triangular
\* (diagonal arrays included) and as an upper factor when it is upper- but
\* not lower-triangular; the operator's upper flag is the argument's.
C8_Construct ==
    (op = "__init__" /\ ~arg.chol.typed) =>
        LET M == arg.chol.mat
        IN  /\ warned
            /\ (~IsLower(M) /\ ~IsUpper(M)) =>
                  (err = "ValueError" /\ res.kind = "raised" /\ self = NoObject)
            /\ IsLower(M) =>
                  /\ err = "none" /\ res.kind = "operator"
                  /\ self = CholLinearOperator(Tri(M, FALSE), arg.upper)
            /\ (IsUpper(M) /\ ~IsLower(M)) =>
                  /\ err = "none" /\ res.kind = "operator"
                  /\ self = CholLinearOperator(Tri(M, TRUE), arg.upper)

C8_Witness ==
    /\ op = "__init__" /\ ~arg.chol.typed
    /\ NRows(arg.chol.mat) = 2
    /\ IsLower(arg.chol.mat) /\ IsUpper(arg.chol.mat)
    /\ arg.chol.mat[1][1] # QZero
    /\ arg.upper
    /\ warned
    /\ self.upper /\ ~self.root.upper

ShapeMismatchErrors ==
    {"RuntimeError: cannot be multiplied", "RuntimeError: number of dimensions"}

\* the shape rule of inv_quad_logdet, in the claim's words
ShapeRule(shape, rhsShape) ==
    IF Len(shape) = 2 /\ Len(rhsShape) = 1
    THEN rhsShape[1] = shape[Len(shape)]
    ELSE /\ Len(rhsShape) = Len(shape)
         /\ rhsShape[Len(rhsShape) - 1] = shape[Len(shape)]

\* C9: inv_quad_logdet raises the structural error when the operator is not
\* square and, with a right-hand side, a shape-mismatch error exactly when
\* the shape rule is violated; these are raised before any term is computed;
\* when nothing is raised the pair's first element is non-None iff a
\* right-hand side was given and its second iff logdet was requested.
C9_InvQuadLogdetChecks ==
    op = "inv_quad_logdet" =>
        LET shape == self.shape
            square == shape[Len(shape)] = shape[Len(shape) - 1]
        IN  /\ ~square => err = "RuntimeError: square"
            /\ (square /\ arg.hasRhs) =>
                  (err \in ShapeMismatchErrors <=> ~ShapeRule(shape, arg.rhsShape))
            /\ (square /\ ~arg.hasRhs) => err = "none"
            /\ err \in ShapeMismatchErrors \cup {"RuntimeError: square"} =>
                  (ran = {} /\ res.kind = "raised")
            /\ err = "none" =>
                  /\ res.kind = "pair"
                  /\ (res.val[1].ndim # 0 - 1) <=> arg.hasRhs
                  /\ (res.val[2].ndim # 0 - 1) <=> arg.logdet

C9_Witness ==
    /\ op = "inv_quad_logdet"
    /\ Len(self.shape) = 3
    /\ arg.hasRhs /\ Len(arg.rhsShape) = 3 /\ arg.logdet
    /\ arg.rhsShape[2] # self.shape[3]
    /\ err = "RuntimeError: cannot be multiplied"
    /\ ran = {}

\* C10: with a non-zero diagonal, the logdet term of
\* inv_quad_logdet(logdet=True) is the sum of log(d^2) over the factor's
\* diagonal, the logarithm of det(to_dense()): the product of the d^2 is
\* det(A), 36 for R = [[2,0],[1,3]].
C10_Logdet ==
    (op = "inv_quad_logdet" /\ res.kind = "pair" /\ arg.logdet
       /\ ~Singular(self.root)) =>
        /\ res.val[2].log = QProd(Tup([i \in 1..N |-> QMul(R[i][i], R[i][i])]))
        /\ res.val[2].log = Det(to_dense(self))
        /\ R = ScenarioRoot => res.val[2].log = Q(36)

C10_Witness ==
    /\ op = "inv_quad_logdet" /\ res.kind = "pair" /\ arg.logdet
    /\ R = ScenarioRoot
    /\ self.upper
    /\ arg.inv_quad_rhs.ndim = 0 - 1
    /\ res.val[2].log = Q(36)

====
